---- MODULE Spec2Model ----
(***************************************************************************)
(* Shared-array-buffer transport of the csound browser host.               *)
(*                                                                         *)
(* Three agents share one Int32 state vector (audio_state):                *)
(*   - the control host      (SharedArrayBufferMainThread),                *)
(*   - the synthesis worker  (sab.worker.js: realtime loop / render loop), *)
(*   - the audio backend     (opaque: rings the doorbell).                 *)
(*                                                                         *)
(* Host operations run to completion on the host's event loop and are one  *)
(* action each; the worker is a second thread and is cut at its blocking   *)
(* points and at the atomic accesses whose interleaving with the host      *)
(* matters (doorbell wait, stop check, pause load, pause wait, re-arm).    *)
(*                                                                         *)
(* Specifications:                                                         *)
(*   Spec      start/stop/pause/resume/MIDI, realtime and offline.         *)
(*   SpecReset realtime performances with reset().                         *)
(*   LiveSpec  the first realtime performance, with fairness.              *)
(*   SpecMidi  one MIDI-requesting performance fed in batches.             *)
(*   SpecRpc   wrapped API calls through the callback ring or the proxy.   *)
(*   SpecSetup realtime performances of engines with differing parameters. *)
(*   SpecNotify registration and invocation of play-state callbacks.       *)
(*   SpecAudio a backend that also writes input and reads output frames.   *)
(*   RenderSpec the first offline render, with fairness.                   *)
(*   SpecCursor the realtime wake, one atomic access at a time.            *)
(*   SpecMidiSteps on_midi and the MIDI drain, one access at a time.       *)
(*   SpecBlocks engines whose block size need not divide the ring size.    *)
(***************************************************************************)
EXTENDS Integers, Sequences, FiniteSets, TLC

VARIABLES
    audioState,       \* the vector allocated by the constructor: captured by initialize() and handed to the worker at every start
    freshState,       \* the vector reset() allocates for this.audioStatePointer
    hostFresh,        \* TRUE once this.audioStatePointer refers to freshState
    nofity,           \* the word AUDIO_STATE.ATOMIC_NOFITY designates (fixed by the constants table of the build)
    currentPlayState, \* this.currentPlayState
    startPromiz,      \* this.startPromiz is set
    stopPromiz,       \* id of the completion this.stopPromiz resolves, 0 when unset
    stopUnresolved,   \* ids of the stop() calls still awaiting their completion
    stopResult,       \* <<value>> returned by the stop() call that returned last, <<>> before any
    resetPc,          \* where a running reset() is suspended
    resetStopId,      \* the stop() completion a suspended reset() awaits
    audioWorker,      \* what prepareRealtimePerformance stamped onto the audio backend object
    mainPort,         \* playStateChange messages in flight, worker -> host
    proxy,            \* the Comlink call the worker has not answered yet
    pc,               \* the worker's position
    w,                \* the worker's locals of the current performance
    endTimer,         \* the worker's pending setTimeout(broadcast realtimePerformanceEnded)
    engine,           \* the engine instance (opaque collaborator)
    midiBuffer,       \* the shared MIDI ring
    midiPushed,       \* events handed to csoundPushMidiMessage by the latest drain, in order
    midiSubmitted,    \* events passed to on_midi since the latest drain, in order
    callbackRing,     \* uids of the requests pending in the callback request ring, in order
    replyPort,        \* uids of the {uid, value} messages in flight, worker -> host
    returnQueue,      \* uids the host's returnQueue holds a completion for
    fulfilled,        \* per uid, how often the reply listener has called its completion
    directCalls,      \* wrapped API calls sent through the worker proxy, not yet served
    callbacks,        \* this.csoundPlayStateChangeCallbacks
    copy,             \* the copy loop's locals i, hasInput, outputWriteIndex
    rung,             \* history: the backend rang after the present wake had copied its
                      \* frames, and no doorbell wait has returned since
    midiHost,         \* handleMidiInput taken one atomic access at a time: position, locals
    midiDrain,        \* the locals of a MIDI drain taken one atomic access at a time
    dispatched        \* what the latest onPlayStateChange forwarded and invoked, in order

vars == <<audioState, freshState, hostFresh, nofity, currentPlayState, startPromiz,
          stopPromiz, stopUnresolved, stopResult, resetPc, resetStopId, audioWorker,
          mainPort, proxy, pc, w, endTimer, engine, midiBuffer, midiPushed,
          midiSubmitted, callbackRing, replyPort, returnQueue, fulfilled, directCalls,
          callbacks, copy, rung, midiHost, midiDrain, dispatched>>

hostVars == <<currentPlayState, startPromiz, stopPromiz, stopUnresolved, stopResult,
              resetPc, resetStopId, audioWorker, dispatched>>

\* the callback RPC, the registered play-state callbacks, the copy loop's locals
midiVars == <<midiHost, midiDrain>>
callVars == <<callbackRing, replyPort, returnQueue, fulfilled, directCalls, callbacks, copy,
              midiVars>>
apiVars == <<callVars, rung>>

\* the locals of a wake that is taken one atomic access at a time
NoCopy == [i |-> 0, hasInput |-> FALSE, outputWriteIndex |-> 0]

----------------------------------------------------------------------------
(* Bounds of the model *)

ScoreBlocks == 1        \* blocks the engine performs before it signals the end
MaxStopCalls == 2       \* stop() completions that may be pending at once
MaxPendingMidi == 1     \* on_midi calls queued between two drains (main specification)
MaxPort == 1            \* playStateChange messages in flight at once
MaxTimers == 2          \* realtimePerformanceEnded timers pending when a start is served
MaxCalls == 2           \* wrapped API calls the host makes through either route
MaxCallbacks == 2       \* play-state callbacks registered at once

(* Shared constants table (constants.js) *)

HW_BUFFER_SIZE_DEFAULT == 4
SW_BUFFER_SIZE_DEFAULT == 2
MIDI_BUFFER_SIZE == 10
MIDI_BUFFER_PAYLOAD_SIZE == 3

Fields == {"IS_PERFORMING", "IS_PAUSED", "STOP", "ATOMIC_NOTIFY", "NCHNLS", "NCHNLS_I",
           "SAMPLE_RATE", "HW_BUFFER_SIZE", "SW_BUFFER_SIZE", "AVAIL_IN_BUFS",
           "AVAIL_OUT_BUFS", "INPUT_READ_INDEX", "OUTPUT_WRITE_INDEX",
           "IS_REQUESTING_RTMIDI", "AVAIL_RTMIDI_EVENTS", "RTMIDI_INDEX"}

\* new SharedArrayBuffer(...) is zero-filled
ZeroState == [f \in Fields |-> 0]

initialSharedState ==
    [ZeroState EXCEPT !["HW_BUFFER_SIZE"] = HW_BUFFER_SIZE_DEFAULT,
                      !["SW_BUFFER_SIZE"] = SW_BUFFER_SIZE_DEFAULT]

stopableStates == {"realtimePerformanceStarted", "renderStarted",
                   "realtimePerformancePaused", "realtimePerformanceResumed"}

PlayStates == {"undefined", "realtimePerformanceStarted", "realtimePerformancePaused",
               "realtimePerformanceResumed", "realtimePerformanceEnded",
               "renderStarted", "renderEnded"}

\* the words the misspelt key of csoundStop may designate
NofityTargets == {"ATOMIC_NOTIFY", "IS_PERFORMING", "OUTPUT_WRITE_INDEX"}

----------------------------------------------------------------------------
(* The engine (external collaborator, behind its C ABI) *)

EngineConfigs ==
    [realtime : BOOLEAN, rtmidi : {0, 1}, adc : BOOLEAN,
     nchnls : {2}, nchnlsInput : {1}, sr : {44100}, ksmps : {2}]

\* history kept with the engine: spout holds the spout positions read since the
\* latest csoundPerformKsmps (NoBlock before the first call), block what spout held
\* when that call was made
NoBlock == <<-1>>

NoEngine == [left |-> 0, stopped |-> FALSE, ended |-> FALSE, overrun |-> FALSE,
             spout |-> NoBlock, block |-> NoBlock]

\* csoundStart: the score is ready to be performed
EngineStarted ==
    [left |-> ScoreBlocks, stopped |-> FALSE, ended |-> FALSE, overrun |-> FALSE,
     spout |-> NoBlock, block |-> NoBlock]

\* csoundStart of an engine whose score has its own length
EngineOf(cfg) ==
    IF "blocks" \in DOMAIN cfg THEN [EngineStarted EXCEPT !.left = cfg.blocks]
    ELSE EngineStarted

\* csoundPerformKsmps: 0 while the score lasts, non-zero at its end or after csoundStop
PerformReturn(e) == IF e.left > 0 /\ ~e.stopped THEN 0 ELSE 1

PerformEngine(e) ==
    IF e.left > 0 /\ ~e.stopped
    THEN [e EXCEPT !.left = e.left - 1, !.block = e.spout, !.spout = <<>>]
    ELSE [e EXCEPT !.ended = TRUE, !.overrun = e.overrun \/ e.ended,
                   !.block = e.spout, !.spout = <<>>]

\* a frame is read from the spout at position po, the engine not having signalled
\* the end
ReadSpout(e, po) == IF e.ended THEN e ELSE [e EXCEPT !.spout = Append(@, po)]

\* csoundStop: nothing of the score is left to perform; overrun records a call made
\* after the engine has signalled the end
StopEngine(e) == [e EXCEPT !.stopped = TRUE, !.left = 0, !.overrun = e.overrun \/ e.ended]

----------------------------------------------------------------------------
(* Atomics *)

\* Atomics.wait(ta, index, expected): blocks only while the word holds `expected`
AtomicsWaitBlocks(value, expected) == value = expected

\* Atomics.notify(ta, index) for each index of `notified`: a worker blocked on that
\* word of the same buffer resumes after its wait
Woken(p, notified) ==
    IF p = "blocked" /\ "ATOMIC_NOTIFY" \in notified THEN "check"
    ELSE IF p = "pauseblocked" /\ "IS_PAUSED" \in notified THEN "body"
    ELSE IF p = "r_pauseblocked" /\ "IS_PAUSED" \in notified THEN "r_body"
    ELSE p

\* the host's notifications reach the worker only on the buffer the worker waits on
HostWoken(notified) == IF hostFresh THEN pc ELSE Woken(pc, notified)

----------------------------------------------------------------------------
(* Control host: SharedArrayBufferMainThread *)

\* the uids makeSABPerfCallback hands out
Uids == 1..MaxCalls

\* a play-state callback: who it is and whether it throws when called
CallbackFns == [id : 1..MaxCallbacks, throws : BOOLEAN]

\* variant: an exception of a callback ends the iteration
RECURSIVE InvokeCallbacksUnguarded(_, _, _)
InvokeCallbacksUnguarded(cbs, newPlayState, i) ==
    IF i > Len(cbs) THEN <<>>
    ELSE IF cbs[i].throws THEN <<<<cbs[i].id, newPlayState>>>>
    ELSE <<<<cbs[i].id, newPlayState>>>> \o InvokeCallbacksUnguarded(cbs, newPlayState, i + 1)

\* onPlayStateChange, the forEach over csoundPlayStateChangeCallbacks: every callback
\* is called inside its own try/catch, so the iteration goes on after a throw
RECURSIVE InvokeCallbacks(_, _, _)
InvokeCallbacks(cbs, newPlayState, i) ==
    IF i > Len(cbs) THEN <<>>
    ELSE <<<<cbs[i].id, newPlayState>>>> \o InvokeCallbacks(cbs, newPlayState, i + 1)

\* onPlayStateChange: the transition is forwarded to the audio backend inside a
\* try/catch, then the callbacks are invoked; id 0 stands for the backend
Dispatch(cbs, newPlayState) ==
    <<<<0, newPlayState>>>> \o InvokeCallbacks(cbs, newPlayState, 1)

\* this.audioStatePointer
HostVec == IF hostFresh THEN freshState ELSE audioState

SetHostVec(v) ==
    IF hostFresh
    THEN freshState' = v /\ UNCHANGED audioState
    ELSE audioState' = v /\ UNCHANGED freshState

\* prepareRealtimePerformance: the values stamped onto the audio backend object
PrepareRealtimePerformance(hv) ==
    [isRequestingInput |-> hv["NCHNLS_I"] > 0,
     isRequestingMidi |-> hv["IS_REQUESTING_RTMIDI"],
     sampleRate |-> hv["SAMPLE_RATE"],
     inputCount |-> hv["NCHNLS_I"],
     outputsCount |-> hv["NCHNLS"],
     hardwareBufferSize |-> hv["HW_BUFFER_SIZE"],
     softwareBufferSize |-> hv["SW_BUFFER_SIZE"]]

NotStamped == [isRequestingInput |-> FALSE, isRequestingMidi |-> 0, sampleRate |-> 0,
               inputCount |-> 0, outputsCount |-> 0, hardwareBufferSize |-> 0,
               softwareBufferSize |-> 0]

\* variant: realtimePerformanceEnded handled like renderEnded, without the re-initialization
VecAfterPlayStateKept(newPlayState, hv) == hv

\* the vector onPlayStateChange leaves behind
VecAfterPlayState(newPlayState, hv) ==
    IF newPlayState = "realtimePerformanceEnded" THEN initialSharedState ELSE hv

\* onPlayStateChange(newPlayState), hv being the vector the caller leaves behind
\* variant: the completion of start() is kept until a terminal state is handled
StartPendingUntilEnd(pending, newPlayState) ==
    pending /\ newPlayState \notin {"realtimePerformanceEnded", "renderEnded"}

\* onPlayStateChange: whether this.startPromiz is still set after the handler; it is
\* called and deleted unless the new state is realtimePerformanceStarted
StartPending(pending, newPlayState) ==
    pending /\ newPlayState = "realtimePerformanceStarted"

OnPlayStateChange(newPlayState, hv) ==
    LET resolves == newPlayState \in {"realtimePerformanceEnded", "renderEnded"}
                    /\ stopPromiz # 0
    IN  /\ currentPlayState' = newPlayState
        /\ audioWorker' = IF newPlayState = "realtimePerformanceStarted"
                          THEN PrepareRealtimePerformance(hv) ELSE audioWorker
        /\ stopPromiz' = IF resolves THEN 0 ELSE stopPromiz
        /\ stopUnresolved' = IF resolves THEN stopUnresolved \ {stopPromiz}
                             ELSE stopUnresolved
        /\ stopResult' = IF resolves THEN <<0>> ELSE stopResult
        /\ resetPc' = IF resolves /\ resetPc = "awaitStop" /\ stopPromiz = resetStopId
                      THEN "send" ELSE resetPc
        /\ resetStopId' = IF resolves /\ stopPromiz = resetStopId THEN 0 ELSE resetStopId
        /\ SetHostVec(VecAfterPlayState(newPlayState, hv))
        /\ startPromiz' = StartPending(startPromiz, newPlayState)
        /\ dispatched' = Dispatch(callbacks, newPlayState)

\* messageEventHandler: a {playStateChange} message of the worker reaches the host
HandleMessage ==
    /\ mainPort # <<>>
    /\ OnPlayStateChange(Head(mainPort), HostVec)
    /\ mainPort' = Tail(mainPort)
    /\ UNCHANGED <<hostFresh, nofity, proxy, pc, w, endTimer, engine, midiBuffer,
                   midiPushed, midiSubmitted>>
    /\ UNCHANGED apiVars

\* variant: a guard that does not load IS_PERFORMING
PauseGuardIdle(hv) == hv["IS_PAUSED"] # 1 /\ hv["STOP"] # 1

\* csoundPause: the guard
PauseGuard(hv) ==
    hv["IS_PAUSED"] # 1 /\ hv["STOP"] # 1 /\ hv["IS_PERFORMING"] = 1

CsoundPause ==
    /\ IF PauseGuard(HostVec)
       THEN OnPlayStateChange("realtimePerformancePaused",
                              [HostVec EXCEPT !["IS_PAUSED"] = 1])
       ELSE UNCHANGED <<audioState, freshState, hostVars>>
    /\ UNCHANGED <<hostFresh, nofity, mainPort, proxy, pc, w, endTimer, engine,
                   midiBuffer, midiPushed, midiSubmitted>>
    /\ UNCHANGED apiVars

\* csoundResume: the guard
ResumeGuard(hv) ==
    hv["IS_PAUSED"] = 1 /\ hv["STOP"] # 1 /\ hv["IS_PERFORMING"] = 1

CsoundResume ==
    /\ IF ResumeGuard(HostVec)
       THEN /\ OnPlayStateChange("realtimePerformanceResumed",
                                 [HostVec EXCEPT !["IS_PAUSED"] = 0])
            /\ pc' = HostWoken({"IS_PAUSED"})
       ELSE UNCHANGED <<audioState, freshState, hostVars, pc>>
    /\ UNCHANGED <<hostFresh, nofity, mainPort, proxy, w, endTimer, engine,
                   midiBuffer, midiPushed, midiSubmitted>>
    /\ UNCHANGED apiVars

\* csoundStop, accepted: the stores into audio_state, in program order
StopStores(hv, playState, nofityWord) ==
    LET v1 == [hv EXCEPT !["STOP"] = 1]
        v2 == [v1 EXCEPT !["IS_PERFORMING"] = 0]
        v3 == IF playState = "realtimePerformancePaused"
              THEN [v2 EXCEPT !["IS_PAUSED"] = 0] ELSE v2
    IN  IF playState # "renderStarted" THEN [v3 EXCEPT ![nofityWord] = 1] ELSE v3

\* csoundStop, accepted: the words it notifies
StopNotifies(playState) ==
    (IF playState = "realtimePerformancePaused" THEN {"IS_PAUSED"} ELSE {})
    \cup (IF playState # "renderStarted" THEN {"ATOMIC_NOTIFY"} ELSE {})

FreeStopIds == (1..MaxStopCalls) \ stopUnresolved

\* csoundStop, accepted: marks the vector, wakes the worker, awaits completion `id`
StopAccepted(id) ==
    /\ stopPromiz' = id
    /\ stopUnresolved' = stopUnresolved \cup {id}
    /\ SetHostVec(StopStores(HostVec, currentPlayState, nofity))
    /\ pc' = HostWoken(StopNotifies(currentPlayState))

\* csoundStop, refused: returns -1
StopRefused ==
    /\ stopResult' = <<-1>>
    /\ UNCHANGED <<audioState, freshState, stopPromiz, stopUnresolved, pc>>

\* variant: a test that accepts every play state once one was announced
IsStopableLax(playState) == playState # "undefined"

\* stopableStates.has(this.currentPlayState)
IsStopable(playState) == playState \in stopableStates

CsoundStop ==
    /\ IF IsStopable(currentPlayState)
       THEN /\ FreeStopIds # {}
            /\ StopAccepted(CHOOSE id \in FreeStopIds : \A j \in FreeStopIds : id <= j)
            /\ UNCHANGED stopResult
       ELSE StopRefused
    /\ UNCHANGED <<hostFresh, nofity, currentPlayState, startPromiz, resetPc, resetStopId,
                   audioWorker, mainPort, proxy, w, endTimer, engine, midiBuffer,
                   midiPushed, midiSubmitted>>
    /\ UNCHANGED <<apiVars, dispatched>>

\* csoundStart: creates start_pending and dispatches the start to the worker; the
\* worker serves one proxied call at a time and answers it when its loop has returned
CsoundStart ==
    /\ proxy = "none"
    /\ startPromiz' = TRUE
    /\ proxy' = "start"
    /\ UNCHANGED <<audioState, freshState, hostFresh, nofity, currentPlayState,
                   stopPromiz, stopUnresolved, stopResult, resetPc, resetStopId,
                   audioWorker, mainPort, pc, w, endTimer, engine, midiBuffer,
                   midiPushed, midiSubmitted>>
    /\ UNCHANGED <<apiVars, dispatched>>

\* csoundReset, up to its first await
CsoundReset ==
    /\ resetPc = "none"
    /\ IF IsStopable(currentPlayState)
       THEN /\ FreeStopIds # {}
            /\ LET id == CHOOSE i \in FreeStopIds : \A j \in FreeStopIds : i <= j
               IN  /\ StopAccepted(id)
                   /\ resetStopId' = id
            /\ resetPc' = "awaitStop"
       ELSE /\ resetPc' = "send"
            /\ UNCHANGED <<audioState, freshState, stopPromiz, stopUnresolved, pc,
                           resetStopId>>
    /\ UNCHANGED <<hostFresh, nofity, currentPlayState, startPromiz, stopResult,
                   audioWorker, mainPort, proxy, w, endTimer, engine, midiBuffer,
                   midiPushed, midiSubmitted>>
    /\ UNCHANGED <<apiVars, dispatched>>

\* csoundReset: await proxyCallback([])
ResetSend ==
    /\ resetPc = "send"
    /\ proxy = "none"
    /\ proxy' = "reset"
    /\ resetPc' = "awaitProxy"
    /\ UNCHANGED <<audioState, freshState, hostFresh, nofity, currentPlayState,
                   startPromiz, stopPromiz, stopUnresolved, stopResult, resetStopId,
                   audioWorker, mainPort, pc, w, endTimer, engine, midiBuffer,
                   midiPushed, midiSubmitted>>
    /\ UNCHANGED <<apiVars, dispatched>>

\* csoundReset, after the worker's reply: a fresh vector replaces this.audioStatePointer
ResetReallocate ==
    /\ resetPc = "awaitProxy"
    /\ proxy = "resetDone"
    /\ proxy' = "none"
    /\ resetPc' = "none"
    /\ hostFresh' = TRUE
    /\ freshState' = ZeroState
    /\ UNCHANGED <<audioState, nofity, currentPlayState, startPromiz, stopPromiz,
                   stopUnresolved, stopResult, resetStopId, audioWorker, mainPort, pc, w,
                   endTimer, engine, midiBuffer, midiPushed, midiSubmitted>>
    /\ UNCHANGED <<apiVars, dispatched>>

\* handleMidiInput: the slot the next event is written to
MidiNextIndex(hv) ==
    (hv["AVAIL_RTMIDI_EVENTS"] * MIDI_BUFFER_PAYLOAD_SIZE + hv["RTMIDI_INDEX"])
        % MIDI_BUFFER_SIZE

\* handleMidiInput: the ring after the three stores
MidiWrite(buf, at, ev) ==
    [buf EXCEPT ![at] = ev[1], ![at + 1] = ev[2], ![at + 2] = ev[3]]

HandleMidiInput(ev) ==
    /\ midiBuffer' = MidiWrite(midiBuffer, MidiNextIndex(HostVec), ev)
    /\ SetHostVec([HostVec EXCEPT !["AVAIL_RTMIDI_EVENTS"] = @ + 1])
    /\ UNCHANGED <<hostFresh, nofity, hostVars, mainPort, proxy, pc, w, endTimer, engine,
                   midiPushed>>
    /\ UNCHANGED apiVars

----------------------------------------------------------------------------
(* Audio backend (opaque): rings the doorbell of a live performance *)

BackendRing ==
    /\ audioState["IS_PERFORMING"] = 1
    /\ audioState' = [audioState EXCEPT !["ATOMIC_NOTIFY"] = 1]
    /\ pc' = Woken(pc, {"ATOMIC_NOTIFY"})
    /\ rung' = (pc = "rearm" \/ (rung /\ pc # "blocked"))
    /\ UNCHANGED <<freshState, hostFresh, nofity, hostVars, mainPort, proxy, w, endTimer,
                   engine, midiBuffer, midiPushed, midiSubmitted>>
    /\ UNCHANGED callVars

----------------------------------------------------------------------------
(* Synthesis worker: sab.worker.js *)

\* handleSABCallbacks: every request pending in the callback ring is served and
\* its {uid, value} reply posted on the reply port; the ring is then empty
HandleSABCallbacks ==
    /\ replyPort' = replyPort \o callbackRing
    /\ callbackRing' = <<>>

NoLocals == [isRequestingRtMidiInput |-> 0, nchnls |-> 0, nchnlsInput |-> 0, ksmps |-> 0,
             B |-> 0, b |-> 0, lastReturn |-> 0, performanceEnded |-> FALSE]

\* variant: the input channel count is stored whatever the input name
RealtimeSetupAnyInput(e) ==
    [initialSharedState EXCEPT
        !["NCHNLS"] = e.nchnls,
        !["NCHNLS_I"] = e.nchnlsInput,
        !["SAMPLE_RATE"] = e.sr,
        !["IS_REQUESTING_RTMIDI"] = e.rtmidi,
        !["IS_PERFORMING"] = 1]

\* sabCreateRealtimeAudioThread, setup: the vector after the template and the
\* engine's parameters are stored and IS_PERFORMING is raised
RealtimeSetup(e) ==
    [initialSharedState EXCEPT
        !["NCHNLS"] = e.nchnls,
        !["NCHNLS_I"] = IF e.adc THEN e.nchnlsInput ELSE 0,
        !["SAMPLE_RATE"] = e.sr,
        !["IS_REQUESTING_RTMIDI"] = e.rtmidi,
        !["IS_PERFORMING"] = 1]

\* sabCreateRealtimeAudioThread, setup: the locals of the loop
RealtimeLocals(e, v) ==
    [isRequestingRtMidiInput |-> e.rtmidi, nchnls |-> e.nchnls,
     nchnlsInput |-> IF e.adc THEN e.nchnlsInput ELSE 0, ksmps |-> e.ksmps,
     B |-> v["HW_BUFFER_SIZE"], b |-> v["SW_BUFFER_SIZE"],
     lastReturn |-> 0, performanceEnded |-> FALSE]

\* callUncloned("csoundStart"): handleCsoundStart starts the engine, then enters the
\* realtime loop or the render loop
WorkerStart(cfg) ==
    /\ pc = "idle"
    /\ proxy = "start"
    /\ endTimer < MaxTimers
    /\ Len(mainPort) < MaxPort
    /\ engine' = EngineOf(cfg)
    /\ IF cfg.realtime
       THEN /\ audioState' = RealtimeSetup(cfg)
            /\ w' = RealtimeLocals(cfg, RealtimeSetup(cfg))
            /\ mainPort' = Append(mainPort, "realtimePerformanceStarted")
            /\ pc' = "wait"
       ELSE /\ audioState' = [audioState EXCEPT !["IS_PERFORMING"] = 1]
            /\ w' = NoLocals
            /\ mainPort' = Append(mainPort, "renderStarted")
            /\ pc' = "r_cond"
    /\ UNCHANGED <<freshState, hostFresh, nofity, hostVars, proxy, endTimer, midiBuffer,
                   midiPushed, midiSubmitted>>
    /\ rung' = FALSE
    /\ UNCHANGED callVars

\* callUncloned("csoundReset")
WorkerReset ==
    /\ pc = "idle"
    /\ proxy = "reset"
    /\ proxy' = "resetDone"
    /\ engine' = NoEngine
    /\ UNCHANGED <<audioState, freshState, hostFresh, nofity, hostVars, mainPort, pc, w,
                   endTimer, midiBuffer, midiPushed, midiSubmitted>>
    /\ UNCHANGED apiVars

\* while (Atomics.wait(audioStatePointer, ATOMIC_NOTIFY, 0) === "ok" || true)
WorkerWait ==
    /\ pc = "wait"
    /\ pc' = IF AtomicsWaitBlocks(audioState["ATOMIC_NOTIFY"], 0) THEN "blocked" ELSE "check"
    /\ rung' = (rung /\ pc' = "blocked")
    /\ UNCHANGED <<audioState, freshState, hostFresh, nofity, hostVars, mainPort, proxy, w,
                   endTimer, engine, midiBuffer, midiPushed, midiSubmitted>>
    /\ UNCHANGED callVars

\* the exit condition of the realtime loop
ExitCondition(v, locals) ==
    v["STOP"] = 1 \/ v["IS_PERFORMING"] # 1 \/ locals.performanceEnded

\* variant: the exit path stops and performs whatever the engine returned last
ExitEngineAlways(e, locals) == PerformEngine(StopEngine(e))

\* variant: the exit path stops the engine without performing a last block
ExitEngineStopOnly(e, locals) ==
    IF locals.lastReturn = 0 /\ ~locals.performanceEnded THEN StopEngine(e) ELSE e

\* the exit path: csoundStop and one more csoundPerformKsmps unless the engine ended
ExitEngine(e, locals) ==
    IF locals.lastReturn = 0 /\ ~locals.performanceEnded
    THEN PerformEngine(StopEngine(e)) ELSE e

WorkerCheck ==
    /\ pc = "check"
    /\ IF ExitCondition(audioState, w)
       THEN /\ engine' = ExitEngine(engine, w)
            /\ endTimer' = endTimer + 1
            /\ proxy' = "none"
            /\ w' = NoLocals
            /\ pc' = "idle"
       ELSE /\ pc' = "pause"
            /\ UNCHANGED <<engine, endTimer, proxy, w>>
    /\ rung' = FALSE
    /\ UNCHANGED <<audioState, freshState, hostFresh, nofity, hostVars, mainPort,
                   midiBuffer, midiPushed, midiSubmitted>>
    /\ UNCHANGED callVars

\* setTimeout(() => broadcastPlayState("realtimePerformanceEnded"), 0)
WorkerTimeout ==
    /\ endTimer > 0
    /\ pc = "idle"
    /\ Len(mainPort) < MaxPort
    /\ endTimer' = endTimer - 1
    /\ mainPort' = Append(mainPort, "realtimePerformanceEnded")
    /\ UNCHANGED <<audioState, freshState, hostFresh, nofity, hostVars, proxy, pc, w,
                   engine, midiBuffer, midiPushed, midiSubmitted>>
    /\ UNCHANGED apiVars

\* if (Atomics.load(audioStatePointer, IS_PAUSED) === 1)
WorkerPauseLoad ==
    /\ pc = "pause"
    /\ pc' = IF audioState["IS_PAUSED"] = 1 THEN "pausewait" ELSE "body"
    /\ UNCHANGED <<audioState, freshState, hostFresh, nofity, hostVars, mainPort, proxy, w,
                   endTimer, engine, midiBuffer, midiPushed, midiSubmitted>>
    /\ UNCHANGED apiVars

\* Atomics.wait(audioStatePointer, IS_PAUSED, 0)
WorkerPauseWait ==
    /\ pc = "pausewait"
    /\ pc' = IF AtomicsWaitBlocks(audioState["IS_PAUSED"], 0) THEN "pauseblocked" ELSE "body"
    /\ UNCHANGED <<audioState, freshState, hostFresh, nofity, hostVars, mainPort, proxy, w,
                   endTimer, engine, midiBuffer, midiPushed, midiSubmitted>>
    /\ UNCHANGED apiVars

\* the MIDI drain: slot of the idx-th event of a batch that starts at r
MidiAbsIdx(r, idx) == (r + MIDI_BUFFER_PAYLOAD_SIZE * idx) % MIDI_BUFFER_SIZE

\* the MIDI drain: the three words loaded at a slot
MidiEventAt(buf, at) == <<buf[at], buf[at + 1], buf[at + 2]>>

\* the MIDI drain: does this wake drain
MidiDrains(v, locals) ==
    locals.isRequestingRtMidiInput # 0 /\ v["AVAIL_RTMIDI_EVENTS"] > 0

\* the MIDI drain: the events pushed to the engine, in order
MidiDrained(v, locals, buf) ==
    IF MidiDrains(v, locals)
    THEN [k \in 1..v["AVAIL_RTMIDI_EVENTS"] |->
            MidiEventAt(buf, MidiAbsIdx(v["RTMIDI_INDEX"], k - 1))]
    ELSE <<>>

\* the MIDI drain: RTMIDI_INDEX after n > 0 events were consumed from r
MidiIndexAfter(r, n) == (MidiAbsIdx(r, n - 1) + 1) % MIDI_BUFFER_SIZE

\* the MIDI drain: the vector after the store and the sub
MidiDrainVec(v, locals) ==
    IF MidiDrains(v, locals)
    THEN [v EXCEPT !["RTMIDI_INDEX"] = MidiIndexAfter(@, v["AVAIL_RTMIDI_EVENTS"]),
                   !["AVAIL_RTMIDI_EVENTS"] = @ - v["AVAIL_RTMIDI_EVENTS"]]
    ELSE v

\* Atomics.add(index, 1), then a store of 0 once the cursor reaches _B
AdvanceCursor(v, field, B) ==
    IF v[field] + 1 >= B THEN [v EXCEPT ![field] = 0] ELSE [v EXCEPT ![field] = @ + 1]

\* one frame of the copy loop; st = [v, e, lastReturn, performanceEnded]
CopyFrame(st, i, hasInput, outputWriteIndex, locals) ==
    LET co == (outputWriteIndex + i) % locals.B
        po == co % locals.ksmps
        gate == po = 0 /\ ~st.performanceEnded
        performs == gate /\ st.lastReturn = 0
        v1 == IF hasInput THEN AdvanceCursor(st.v, "INPUT_READ_INDEX", locals.B) ELSE st.v
    IN  [v |-> AdvanceCursor(v1, "OUTPUT_WRITE_INDEX", locals.B),
         e |-> ReadSpout(IF performs THEN PerformEngine(st.e) ELSE st.e, po),
         lastReturn |-> IF performs THEN PerformReturn(st.e) ELSE st.lastReturn,
         performanceEnded |-> st.performanceEnded \/ (gate /\ st.lastReturn # 0)]

RECURSIVE CopyFrames(_, _, _, _, _)
\* frames i .. _b-1 of the copy loop
CopyFrames(st, i, hasInput, outputWriteIndex, locals) ==
    IF i >= locals.b THEN st
    ELSE CopyFrames(CopyFrame(st, i, hasInput, outputWriteIndex, locals), i + 1,
                    hasInput, outputWriteIndex, locals)

\* variant: the input counter is decreased on every wake
PublishCountersAlways(v, hasInput, locals) ==
    [v EXCEPT !["AVAIL_IN_BUFS"] = @ - locals.b, !["AVAIL_OUT_BUFS"] = @ + locals.b]

\* the counters published after the copy loop
PublishCounters(v, hasInput, locals) ==
    LET v1 == IF hasInput THEN [v EXCEPT !["AVAIL_IN_BUFS"] = @ - locals.b] ELSE v
    IN  [v1 EXCEPT !["AVAIL_OUT_BUFS"] = @ + locals.b]

\* one wake past the pause check: MIDI drain, copy loop, counters
WakeResult(v, e, locals, buf) ==
    LET v0 == MidiDrainVec(v, locals)
        hasInput == v0["AVAIL_IN_BUFS"] >= locals.b
        st == CopyFrames([v |-> v0, e |-> e, lastReturn |-> locals.lastReturn,
                          performanceEnded |-> locals.performanceEnded],
                         0, hasInput, v0["OUTPUT_WRITE_INDEX"], locals)
    IN  [v |-> PublishCounters(st.v, hasInput, locals),
         e |-> st.e,
         locals |-> [locals EXCEPT !.lastReturn = st.lastReturn,
                                   !.performanceEnded = st.performanceEnded],
         pushed |-> MidiDrained(v, locals, buf)]

WorkerBody ==
    /\ pc = "body"
    /\ LET r == WakeResult(audioState, engine, w, midiBuffer)
       IN  /\ audioState' = r.v
           /\ engine' = r.e
           /\ w' = r.locals
           /\ midiPushed' = r.pushed
           /\ midiSubmitted' = IF MidiDrains(audioState, w) THEN <<>> ELSE midiSubmitted
    /\ HandleSABCallbacks
    /\ pc' = "rearm"
    /\ UNCHANGED <<freshState, hostFresh, nofity, hostVars, mainPort, proxy, endTimer,
                   midiBuffer, returnQueue, fulfilled, directCalls, callbacks, copy, rung,
                   midiVars>>

\* Atomics.store(audioStatePointer, ATOMIC_NOTIFY, 0)
WorkerRearm ==
    /\ pc = "rearm"
    /\ audioState' = [audioState EXCEPT !["ATOMIC_NOTIFY"] = 0]
    /\ pc' = "wait"
    /\ UNCHANGED <<freshState, hostFresh, nofity, hostVars, mainPort, proxy, w, endTimer,
                   engine, midiBuffer, midiPushed, midiSubmitted>>
    /\ UNCHANGED apiVars

\* renderFn: does the loop condition let the body run
RenderContinues(v, e) == v["STOP"] # 1 /\ PerformReturn(e) = 0

\* renderFn: the loop condition; when it fails IS_PERFORMING is cleared and
\* handleCsoundStart broadcasts renderEnded
WorkerRenderCond ==
    /\ pc = "r_cond"
    /\ engine' = IF audioState["STOP"] # 1 THEN PerformEngine(engine) ELSE engine
    /\ IF RenderContinues(audioState, engine)
       THEN /\ pc' = "r_pause"
            /\ UNCHANGED <<audioState, mainPort, proxy>>
       ELSE /\ Len(mainPort) < MaxPort
            /\ audioState' = [audioState EXCEPT !["IS_PERFORMING"] = 0]
            /\ mainPort' = Append(mainPort, "renderEnded")
            /\ proxy' = "none"
            /\ pc' = "idle"
    /\ UNCHANGED <<freshState, hostFresh, nofity, hostVars, w, endTimer, midiBuffer,
                   midiPushed, midiSubmitted>>
    /\ UNCHANGED apiVars

WorkerRenderPauseLoad ==
    /\ pc = "r_pause"
    /\ pc' = IF audioState["IS_PAUSED"] = 1 THEN "r_pausewait" ELSE "r_body"
    /\ UNCHANGED <<audioState, freshState, hostFresh, nofity, hostVars, mainPort, proxy, w,
                   endTimer, engine, midiBuffer, midiPushed, midiSubmitted>>
    /\ UNCHANGED apiVars

WorkerRenderPauseWait ==
    /\ pc = "r_pausewait"
    /\ pc' = IF AtomicsWaitBlocks(audioState["IS_PAUSED"], 0) THEN "r_pauseblocked"
             ELSE "r_body"
    /\ UNCHANGED <<audioState, freshState, hostFresh, nofity, hostVars, mainPort, proxy, w,
                   endTimer, engine, midiBuffer, midiPushed, midiSubmitted>>
    /\ UNCHANGED apiVars

\* renderFn: the rest of one iteration, handleSABCallbacks
WorkerRenderBody ==
    /\ pc = "r_body"
    /\ HandleSABCallbacks
    /\ pc' = "r_cond"
    /\ UNCHANGED <<audioState, freshState, hostFresh, nofity, hostVars, mainPort, proxy, w,
                   endTimer, engine, midiBuffer, midiPushed, midiSubmitted, returnQueue,
                   fulfilled, directCalls, callbacks, copy, rung,
                   midiVars>>

----------------------------------------------------------------------------
(* The system after the constructor and initialize() *)

\* handleMidiInput not running; its arguments and locals
NoMidiHost == [at |-> "idle", data |-> <<0, 0, 0>>, currentQueueLength |-> 0,
               rtmidiBufferIndex |-> 0]

\* the locals of the MIDI drain outside a drain
NoMidiDrain == [availableMidiEvents |-> 0, rtmidiBufferIndex |-> 0, idx |-> 0,
                absIdx |-> 0, status |-> 0, data1 |-> 0]

EmptyMidiBuffer == [i \in 0..(MIDI_BUFFER_SIZE * MIDI_BUFFER_PAYLOAD_SIZE - 1) |-> 0]

Init ==
    /\ audioState = ZeroState
    /\ freshState = ZeroState
    /\ hostFresh = FALSE
    /\ nofity \in NofityTargets
    /\ currentPlayState = "undefined"
    /\ startPromiz = FALSE
    /\ stopPromiz = 0
    /\ stopUnresolved = {}
    /\ stopResult = <<>>
    /\ resetPc = "none"
    /\ resetStopId = 0
    /\ audioWorker = NotStamped
    /\ mainPort = <<>>
    /\ proxy = "none"
    /\ pc = "idle"
    /\ w = NoLocals
    /\ endTimer = 0
    /\ engine = NoEngine
    /\ midiBuffer = EmptyMidiBuffer
    /\ midiPushed = <<>>
    /\ midiSubmitted = <<>>
    /\ callbackRing = <<>>
    /\ replyPort = <<>>
    /\ returnQueue = {}
    /\ fulfilled = [uid \in Uids |-> 0]
    /\ directCalls = 0
    /\ callbacks = <<>>
    /\ copy = NoCopy
    /\ rung = FALSE
    /\ midiHost = NoMidiHost
    /\ midiDrain = NoMidiDrain
    /\ dispatched = <<>>

(* Main specification: start, stop, pause, resume and MIDI input on the host, *)
(* realtime and offline performances on the worker, the backend's doorbell.   *)

\* MIDI input of the main specification
QuietMidi == {<<0, 0, 0>>}

\* the engine configurations of the main specification
MainConfigs == {cfg \in EngineConfigs : cfg.adc}

HostMidi ==
    \E ev \in QuietMidi :
        /\ HostVec["AVAIL_RTMIDI_EVENTS"] < MaxPendingMidi
        /\ HandleMidiInput(ev)
        /\ UNCHANGED midiSubmitted

RealtimeWorker ==
    \/ WorkerWait
    \/ WorkerCheck
    \/ WorkerPauseLoad
    \/ WorkerPauseWait
    \/ WorkerBody
    \/ WorkerRearm
    \/ WorkerTimeout

RenderWorker ==
    \/ WorkerRenderCond
    \/ WorkerRenderPauseLoad
    \/ WorkerRenderPauseWait
    \/ WorkerRenderBody

Next ==
    \/ CsoundStart
    \/ CsoundStop
    \/ CsoundPause
    \/ CsoundResume
    \/ HandleMessage
    \/ HostMidi
    \/ \E cfg \in MainConfigs : WorkerStart(cfg)
    \/ RealtimeWorker
    \/ RenderWorker
    \/ BackendRing

Spec == Init /\ [][Next]_vars

----------------------------------------------------------------------------
(* Reset specification: realtime performances with reset() on the host *)

ResetConfigs == {cfg \in EngineConfigs : cfg.realtime /\ cfg.adc /\ cfg.rtmidi = 0}

NextReset ==
    \/ CsoundStart
    \/ CsoundStop
    \/ CsoundPause
    \/ CsoundReset
    \/ ResetSend
    \/ ResetReallocate
    \/ HandleMessage
    \/ \E cfg \in ResetConfigs : WorkerStart(cfg)
    \/ WorkerReset
    \/ RealtimeWorker
    \/ BackendRing

SpecReset == Init /\ [][NextReset]_vars

----------------------------------------------------------------------------
(* Liveness specification: the first realtime performance, with the          *)
(* scheduling the platform guarantees: the worker thread keeps running, its   *)
(* timer fires, the host's event loop delivers the messages posted to it.     *)
(* Nothing obliges the user to call the API or the backend to ring.           *)

LiveConfigs == {cfg \in EngineConfigs : cfg.realtime /\ cfg.adc /\ cfg.rtmidi = 0}

WorkerLoop ==
    \/ WorkerWait
    \/ WorkerCheck
    \/ WorkerPauseLoad
    \/ WorkerPauseWait
    \/ WorkerBody
    \/ WorkerRearm

FirstStart == currentPlayState = "undefined" /\ ~startPromiz /\ CsoundStart

LiveStart == \E cfg \in LiveConfigs : WorkerStart(cfg)

NextLive ==
    \/ FirstStart
    \/ CsoundStop
    \/ CsoundPause
    \/ CsoundResume
    \/ HandleMessage
    \/ LiveStart
    \/ WorkerLoop
    \/ WorkerTimeout
    \/ BackendRing

LiveSpec ==
    /\ Init
    /\ [][NextLive]_vars
    /\ WF_vars(LiveStart)
    /\ WF_vars(WorkerLoop)
    /\ WF_vars(WorkerTimeout)
    /\ WF_vars(HandleMessage)

----------------------------------------------------------------------------
(* MIDI specification: one realtime performance that requests MIDI; while the *)
(* score lasts on_midi is called in batches, the worker being blocked on the  *)
(* doorbell.                                                                  *)

MaxMidiBatch == 4       \* on_midi calls between two wakes

MidiEvents == {<<144, 60, 100>>, <<128, 60, 0>>}

MidiConfigs == {cfg \in EngineConfigs : cfg.realtime /\ cfg.adc /\ cfg.rtmidi = 1}

MidiStart == ~startPromiz /\ CsoundStart

MidiSubmit ==
    \E ev \in MidiEvents :
        /\ pc = "blocked"
        /\ w.lastReturn = 0
        /\ Len(midiSubmitted) < MaxMidiBatch
        /\ HandleMidiInput(ev)
        /\ midiSubmitted' = Append(midiSubmitted, ev)

NextMidi ==
    \/ MidiStart
    \/ \E cfg \in MidiConfigs : WorkerStart(cfg)
    \/ HandleMessage
    \/ MidiSubmit
    \/ BackendRing
    \/ WorkerWait
    \/ WorkerCheck
    \/ WorkerPauseLoad
    \/ WorkerBody
    \/ WorkerRearm
    \/ WorkerTimeout

SpecMidi == Init /\ [][NextMidi]_vars

----------------------------------------------------------------------------
(* Callback RPC specification: wrapped API calls of the host against realtime *)
(* and offline performances, with stop, pause and resume.                     *)

RpcConfigs == {cfg \in EngineConfigs : cfg.adc /\ cfg.rtmidi = 0}

\* makeSABPerfCallback: the completion is stored in returnQueue under a new uid
\* and the request is appended to the callback ring
PerfCallback(uid) ==
    /\ returnQueue' = returnQueue \cup {uid}
    /\ callbackRing' = Append(callbackRing, uid)
    /\ UNCHANGED directCalls

\* makeProxyCallback: the call is sent to the worker as a message
ProxyCallback ==
    /\ directCalls' = directCalls + 1
    /\ UNCHANGED <<returnQueue, callbackRing>>

\* bufferWrappedCallback: the test that selects perfCallback
RingRoute(playState, hv) ==
    playState \in {"realtimePerformanceStarted", "renderStarted"}

\* bufferWrappedCallback: one call of a wrapped API operation
BufferWrappedCallback ==
    /\ Cardinality(returnQueue) + directCalls < MaxCalls
    /\ IF RingRoute(currentPlayState, HostVec)
       THEN PerfCallback(Cardinality(returnQueue) + 1)
       ELSE ProxyCallback
    /\ UNCHANGED <<audioState, freshState, hostFresh, nofity, hostVars, mainPort, proxy,
                   pc, w, endTimer, engine, midiBuffer, midiPushed, midiSubmitted,
                   replyPort, fulfilled, callbacks, copy, rung,
                   midiVars>>

\* the listener on sabMainCallbackReply: the completion stored under the uid, if
\* any, is called; the entry stays in returnQueue
HandleReply ==
    /\ replyPort # <<>>
    /\ LET uid == Head(replyPort)
       IN  fulfilled' = IF uid \in returnQueue
                        THEN [fulfilled EXCEPT ![uid] = @ + 1] ELSE fulfilled
    /\ replyPort' = Tail(replyPort)
    /\ UNCHANGED <<audioState, freshState, hostFresh, nofity, hostVars, mainPort, proxy,
                   pc, w, endTimer, engine, midiBuffer, midiPushed, midiSubmitted,
                   callbackRing, returnQueue, directCalls, callbacks, copy, rung,
                   midiVars>>

\* the worker serves a proxied call when its event loop is free
ServeProxied ==
    /\ pc = "idle"
    /\ directCalls > 0
    /\ directCalls' = directCalls - 1
    /\ UNCHANGED <<audioState, freshState, hostFresh, nofity, hostVars, mainPort, proxy,
                   pc, w, endTimer, engine, midiBuffer, midiPushed, midiSubmitted,
                   callbackRing, replyPort, returnQueue, fulfilled, callbacks, copy, rung,
                   midiVars>>

NextRpc ==
    \/ CsoundStart
    \/ CsoundStop
    \/ CsoundPause
    \/ CsoundResume
    \/ HandleMessage
    \/ BufferWrappedCallback
    \/ HandleReply
    \/ ServeProxied
    \/ \E cfg \in RpcConfigs : WorkerStart(cfg)
    \/ RealtimeWorker
    \/ RenderWorker
    \/ BackendRing

SpecRpc == Init /\ [][NextRpc]_vars

----------------------------------------------------------------------------
(* Setup specification: realtime performances of engines that differ in their *)
(* channel counts, sample rate, block size and input name.                    *)

SetupConfigs ==
    [realtime : {TRUE}, rtmidi : {0}, adc : BOOLEAN,
     nchnls : {1, 2}, nchnlsInput : {2}, sr : {44100, 48000}, ksmps : {2, 3}]

NextSetup ==
    \/ CsoundStart
    \/ CsoundStop
    \/ HandleMessage
    \/ \E cfg \in SetupConfigs : WorkerStart(cfg)
    \/ WorkerWait
    \/ WorkerCheck
    \/ WorkerPauseLoad
    \/ WorkerBody
    \/ WorkerRearm
    \/ WorkerTimeout
    \/ BackendRing

SpecSetup == Init /\ [][NextSetup]_vars

----------------------------------------------------------------------------
(* Notification specification: play-state callbacks are registered while       *)
(* realtime performances are started, paused, resumed and stopped.            *)

NotifyConfigs == {cfg \in EngineConfigs : cfg.realtime /\ cfg.adc /\ cfg.rtmidi = 0}

\* setCsoundPlayStateChangeCallback: anything but a function is refused
SetCsoundPlayStateChangeCallback(isFunction, callback) ==
    /\ callbacks' = IF isFunction THEN <<callback>> ELSE callbacks
    /\ UNCHANGED <<audioState, freshState, hostFresh, nofity, hostVars, mainPort, proxy,
                   pc, w, endTimer, engine, midiBuffer, midiPushed, midiSubmitted,
                   callbackRing, replyPort, returnQueue, fulfilled, directCalls, copy, rung,
                   midiVars>>

\* addCsoundPlayStateChangeCallback: anything but a function is refused
AddCsoundPlayStateChangeCallback(isFunction, callback) ==
    /\ Len(callbacks) < MaxCallbacks
    /\ callbacks' = IF isFunction THEN Append(callbacks, callback) ELSE callbacks
    /\ UNCHANGED <<audioState, freshState, hostFresh, nofity, hostVars, mainPort, proxy,
                   pc, w, endTimer, engine, midiBuffer, midiPushed, midiSubmitted,
                   callbackRing, replyPort, returnQueue, fulfilled, directCalls, copy, rung,
                   midiVars>>

NextNotify ==
    \/ CsoundStart
    \/ CsoundStop
    \/ CsoundPause
    \/ CsoundResume
    \/ HandleMessage
    \/ \E isFunction \in BOOLEAN, callback \in CallbackFns :
           SetCsoundPlayStateChangeCallback(isFunction, callback)
    \/ \E isFunction \in BOOLEAN, callback \in CallbackFns :
           AddCsoundPlayStateChangeCallback(isFunction, callback)
    \/ \E cfg \in NotifyConfigs : WorkerStart(cfg)
    \/ WorkerWait
    \/ WorkerCheck
    \/ WorkerTimeout

SpecNotify == Init /\ [][NextNotify]_vars

----------------------------------------------------------------------------
(* Audio specification: realtime performances against an audio backend that   *)
(* rings the doorbell, writes input frames and reads output frames at will.   *)

AudioConfigs == {cfg \in EngineConfigs : cfg.realtime /\ cfg.adc /\ cfg.rtmidi = 0}

\* the audio backend has written one block of input frames into in_ring
BackendWriteInput ==
    /\ audioState["IS_PERFORMING"] = 1
    /\ audioState["AVAIL_IN_BUFS"] + audioState["SW_BUFFER_SIZE"]
           <= audioState["HW_BUFFER_SIZE"]
    /\ audioState' = [audioState EXCEPT !["AVAIL_IN_BUFS"] = @ + audioState["SW_BUFFER_SIZE"]]
    /\ UNCHANGED <<freshState, hostFresh, nofity, hostVars, mainPort, proxy, pc, w,
                   endTimer, engine, midiBuffer, midiPushed, midiSubmitted>>
    /\ UNCHANGED apiVars

\* the audio backend has read one block of output frames from out_ring
BackendReadOutput ==
    /\ audioState["IS_PERFORMING"] = 1
    /\ audioState["AVAIL_OUT_BUFS"] >= audioState["SW_BUFFER_SIZE"]
    /\ audioState' = [audioState EXCEPT !["AVAIL_OUT_BUFS"] = @ - audioState["SW_BUFFER_SIZE"]]
    /\ UNCHANGED <<freshState, hostFresh, nofity, hostVars, mainPort, proxy, pc, w,
                   endTimer, engine, midiBuffer, midiPushed, midiSubmitted>>
    /\ UNCHANGED apiVars

NextAudio ==
    \/ CsoundStart
    \/ CsoundStop
    \/ CsoundPause
    \/ CsoundResume
    \/ HandleMessage
    \/ \E cfg \in AudioConfigs : WorkerStart(cfg)
    \/ RealtimeWorker
    \/ BackendRing
    \/ BackendWriteInput
    \/ BackendReadOutput

SpecAudio == Init /\ [][NextAudio]_vars

----------------------------------------------------------------------------
(* Offline render specification: the first start() renders offline; stop,     *)
(* pause and resume on the host. The worker's steps and the delivery of its   *)
(* messages are weakly fair.                                                  *)

RenderConfigs == {cfg \in EngineConfigs : ~cfg.realtime /\ cfg.adc}

RenderStart == \E cfg \in RenderConfigs : WorkerStart(cfg)

NextRender ==
    \/ FirstStart
    \/ CsoundStop
    \/ CsoundPause
    \/ CsoundResume
    \/ HandleMessage
    \/ RenderStart
    \/ RenderWorker

RenderSpec ==
    /\ Init
    /\ [][NextRender]_vars
    /\ WF_vars(RenderStart)
    /\ WF_vars(RenderWorker)
    /\ WF_vars(HandleMessage)

----------------------------------------------------------------------------
(* Cursor specification: the wake of the realtime loop taken one atomic       *)
(* access of audio_state at a time, so that every value another agent can     *)
(* observe in a cursor or counter is a state.                                 *)

CursorConfigs == {cfg \in EngineConfigs : cfg.realtime /\ cfg.adc /\ cfg.rtmidi = 0}

\* what the worker steps below leave alone
copyFrame == <<freshState, hostFresh, nofity, hostVars, mainPort, proxy, endTimer,
               midiBuffer, returnQueue, fulfilled, directCalls, callbacks, rung, midiVars>>

\* the wake up to the copy loop: MIDI drain, handleSABCallbacks, the loads of
\* AVAIL_IN_BUFS (hasInput) and OUTPUT_WRITE_INDEX
CopyEnter ==
    /\ pc = "body"
    /\ audioState' = MidiDrainVec(audioState, w)
    /\ midiPushed' = MidiDrained(audioState, w, midiBuffer)
    /\ midiSubmitted' = IF MidiDrains(audioState, w) THEN <<>> ELSE midiSubmitted
    /\ HandleSABCallbacks
    /\ copy' = [i |-> 0, hasInput |-> audioState["AVAIL_IN_BUFS"] >= w.b,
                outputWriteIndex |-> audioState["OUTPUT_WRITE_INDEX"]]
    /\ pc' = "frame"
    /\ UNCHANGED <<copyFrame, w, engine>>

\* the head of one iteration of the copy loop: the engine performs a block when
\* the output position is at a block boundary; the frame is copied
CopyPerform ==
    /\ pc = "frame"
    /\ IF copy.i >= w.b
       THEN /\ pc' = "sub_in"
            /\ UNCHANGED <<w, engine>>
       ELSE LET co == (copy.outputWriteIndex + copy.i) % w.B
                gate == co % w.ksmps = 0 /\ ~w.performanceEnded
                performs == gate /\ w.lastReturn = 0
            IN  /\ engine' = ReadSpout(IF performs THEN PerformEngine(engine) ELSE engine,
                                       co % w.ksmps)
                /\ w' = [w EXCEPT
                            !.lastReturn = IF performs THEN PerformReturn(engine) ELSE @,
                            !.performanceEnded = @ \/ (gate /\ w.lastReturn # 0)]
                /\ pc' = IF copy.hasInput THEN "in_add" ELSE "out_add"
    /\ UNCHANGED <<copyFrame, audioState, midiPushed, midiSubmitted, callbackRing,
                   replyPort, copy>>

\* Atomics.add(audioStatePointer, field, 1)
CursorAdd(field, at, next) ==
    /\ pc = at
    /\ audioState' = [audioState EXCEPT ![field] = @ + 1]
    /\ pc' = next
    /\ UNCHANGED <<copyFrame, w, engine, midiPushed, midiSubmitted, callbackRing,
                   replyPort, copy>>

\* Atomics.load(audioStatePointer, field) >= _B
CursorLoad(field, at, wrap, next) ==
    /\ pc = at
    /\ pc' = IF audioState[field] >= w.B THEN wrap ELSE next
    /\ copy' = IF pc' = "frame" THEN [copy EXCEPT !.i = @ + 1] ELSE copy
    /\ UNCHANGED <<copyFrame, audioState, w, engine, midiPushed, midiSubmitted,
                   callbackRing, replyPort>>

\* Atomics.store(audioStatePointer, field, 0)
CursorStore(field, at, next) ==
    /\ pc = at
    /\ audioState' = [audioState EXCEPT ![field] = 0]
    /\ pc' = next
    /\ copy' = IF next = "frame" THEN [copy EXCEPT !.i = @ + 1] ELSE copy
    /\ UNCHANGED <<copyFrame, w, engine, midiPushed, midiSubmitted, callbackRing,
                   replyPort>>

\* hasInput && Atomics.sub(audioStatePointer, AVAIL_IN_BUFS, framesRequested)
PublishInput ==
    /\ pc = "sub_in"
    /\ audioState' = IF copy.hasInput
                     THEN [audioState EXCEPT !["AVAIL_IN_BUFS"] = @ - w.b] ELSE audioState
    /\ pc' = "add_out"
    /\ UNCHANGED <<copyFrame, w, engine, midiPushed, midiSubmitted, callbackRing,
                   replyPort, copy>>

\* Atomics.add(audioStatePointer, AVAIL_OUT_BUFS, framesRequested)
PublishOutput ==
    /\ pc = "add_out"
    /\ audioState' = [audioState EXCEPT !["AVAIL_OUT_BUFS"] = @ + w.b]
    /\ pc' = "rearm"
    /\ copy' = NoCopy
    /\ UNCHANGED <<copyFrame, w, engine, midiPushed, midiSubmitted, callbackRing,
                   replyPort>>

WorkerBodyStepwise ==
    \/ CopyEnter
    \/ CopyPerform
    \/ CursorAdd("INPUT_READ_INDEX", "in_add", "in_load")
    \/ CursorLoad("INPUT_READ_INDEX", "in_load", "in_store", "out_add")
    \/ CursorStore("INPUT_READ_INDEX", "in_store", "out_add")
    \/ CursorAdd("OUTPUT_WRITE_INDEX", "out_add", "out_load")
    \/ CursorLoad("OUTPUT_WRITE_INDEX", "out_load", "out_store", "frame")
    \/ CursorStore("OUTPUT_WRITE_INDEX", "out_store", "frame")
    \/ PublishInput
    \/ PublishOutput

NextCursor ==
    \/ CsoundStart
    \/ CsoundStop
    \/ HandleMessage
    \/ \E cfg \in CursorConfigs : WorkerStart(cfg)
    \/ WorkerWait
    \/ WorkerCheck
    \/ WorkerPauseLoad
    \/ WorkerBodyStepwise
    \/ WorkerRearm
    \/ WorkerTimeout
    \/ BackendRing
    \/ BackendWriteInput

SpecCursor == Init /\ [][NextCursor]_vars

----------------------------------------------------------------------------
(* Properties *)

\* C1: stop() called while the play state is not one of realtimePerformanceStarted,
\* renderStarted, realtimePerformancePaused, realtimePerformanceResumed returns -1,
\* leaves no completion pending, wakes nobody and leaves audio_state untouched.
C1_RefusedStopIsInert ==
    [][(CsoundStop /\ currentPlayState \notin
            {"realtimePerformanceStarted", "renderStarted",
             "realtimePerformancePaused", "realtimePerformanceResumed"})
        => /\ stopResult' = <<-1>>
           /\ UNCHANGED <<audioState, freshState, stopPromiz, stopUnresolved, pc,
                          currentPlayState, mainPort>>]_vars

\* a stop() was refused while a performance is live and its worker sleeps on the doorbell
C1_RefusedWhileLive ==
    /\ stopResult = <<-1>>
    /\ currentPlayState \in {"undefined", "realtimePerformanceEnded", "renderEnded"}
    /\ stopUnresolved = {}
    /\ pc = "blocked"
    /\ audioState["IS_PERFORMING"] = 1

\* C2: once stop() is accepted during a realtime performance, the worker leaves its
\* loop, realtimePerformanceEnded reaches the host and the stop() returns 0, with no
\* other wake-up than the ones stop() itself issues.
C2_StopLeadsToEnded ==
    (stopPromiz # 0) ~> (stopPromiz = 0 /\ stopResult = <<0>>)

\* C3: an accepted stop() sets STOP to 1 and IS_PERFORMING to 0, clears IS_PAUSED and
\* notifies its waiters exactly when IS_PAUSED was 1, stores 1 into ATOMIC_NOTIFY and
\* notifies its waiters exactly when the play state is not renderStarted, and writes
\* no other field.
C3_AcceptedStopEffect ==
    [][(CsoundStop /\ currentPlayState \in
            {"realtimePerformanceStarted", "renderStarted",
             "realtimePerformancePaused", "realtimePerformanceResumed"})
        => LET paused == HostVec["IS_PAUSED"] = 1
               realtime == currentPlayState # "renderStarted"
               v1 == [HostVec EXCEPT !["STOP"] = 1, !["IS_PERFORMING"] = 0]
               v2 == IF paused THEN [v1 EXCEPT !["IS_PAUSED"] = 0] ELSE v1
               v3 == IF realtime THEN [v2 EXCEPT !["ATOMIC_NOTIFY"] = 1] ELSE v2
           IN  /\ HostVec' = v3
               /\ pc' = Woken(pc, (IF paused THEN {"IS_PAUSED"} ELSE {})
                                  \cup (IF realtime THEN {"ATOMIC_NOTIFY"} ELSE {}))]_vars

\* C4: while IS_PAUSED is 1 a worker woken by the doorbell does not get past the pause
\* check (no MIDI drain, no copy loop, no counter update); once past it, one wake
\* raises AVAIL_OUT_BUFS by _b.
C4_PausedWorkerHolds ==
    [][/\ (/\ pc \in {"pause", "pausewait", "pauseblocked"}
           /\ audioState["IS_PAUSED"] = 1
           /\ audioState'["IS_PAUSED"] = 1)
          => pc' \in {"pause", "pausewait", "pauseblocked"}
       /\ (pc = "body" /\ pc' = "rearm")
          => audioState'["AVAIL_OUT_BUFS"] = audioState["AVAIL_OUT_BUFS"] + w.b]_vars

\* C5: when the host has handled realtimePerformanceEnded, every field of its
\* audio_state holds its template value.
C5_EndedReinitializes ==
    [][(HandleMessage /\ Head(mainPort) = "realtimePerformanceEnded")
        => HostVec' = initialSharedState]_vars

\* realtimePerformanceEnded was handled after a stop() that the worker obeyed
C5_EndedAfterStop ==
    /\ currentPlayState = "realtimePerformanceEnded"
    /\ stopResult = <<0>>
    /\ engine.stopped
    /\ mainPort = <<>>
    /\ HostVec = initialSharedState

\* C6: once the host has handled renderEnded and until the next start, STOP, IS_PAUSED
\* and IS_PERFORMING are 0.
C6_RenderEndedReinitializes ==
    (currentPlayState = "renderEnded" /\ proxy = "none" /\ pc = "idle")
        => /\ HostVec["STOP"] = 0
           /\ HostVec["IS_PAUSED"] = 0
           /\ HostVec["IS_PERFORMING"] = 0

\* C7: pause() acts iff IS_PAUSED = 0, STOP = 0 and IS_PERFORMING = 1: it then sets
\* IS_PAUSED to 1 and announces realtimePerformancePaused. resume() acts iff
\* IS_PAUSED = 1, STOP = 0 and IS_PERFORMING = 1: it then clears IS_PAUSED, notifies its
\* waiters and announces realtimePerformanceResumed. Otherwise either call changes
\* neither audio_state nor the play state. No step raises IS_PAUSED after STOP = 1 or
\* while IS_PERFORMING = 0.
C7_PauseResumeGuards ==
    [][/\ CsoundPause
          => IF /\ HostVec["IS_PAUSED"] = 0
                /\ HostVec["STOP"] = 0
                /\ HostVec["IS_PERFORMING"] = 1
             THEN /\ HostVec' = [HostVec EXCEPT !["IS_PAUSED"] = 1]
                  /\ currentPlayState' = "realtimePerformancePaused"
                  /\ pc' = pc
             ELSE UNCHANGED <<audioState, freshState, currentPlayState, pc>>
       /\ CsoundResume
          => IF /\ HostVec["IS_PAUSED"] = 1
                /\ HostVec["STOP"] = 0
                /\ HostVec["IS_PERFORMING"] = 1
             THEN /\ HostVec' = [HostVec EXCEPT !["IS_PAUSED"] = 0]
                  /\ currentPlayState' = "realtimePerformanceResumed"
                  /\ pc' = Woken(pc, {"IS_PAUSED"})
             ELSE UNCHANGED <<audioState, freshState, currentPlayState, pc>>
       /\ (HostVec["IS_PAUSED"] # 1 /\ HostVec'["IS_PAUSED"] = 1)
          => (HostVec["STOP"] = 0 /\ HostVec["IS_PERFORMING"] = 1)]_vars

\* resume() has released a worker that waited on IS_PAUSED
C7_ResumedWorkerRuns ==
    /\ currentPlayState = "realtimePerformanceResumed"
    /\ audioState["IS_PAUSED"] = 0
    /\ audioState["STOP"] = 0
    /\ audioState["IS_PERFORMING"] = 1
    /\ pc = "body"

\* C8: after reset() and start() the host and the worker operate on the same
\* audio_state vector, as in the first performance.
C8_ResetKeepsVectorShared ==
    pc # "idle" => HostVec = audioState

\* C9: the on_midi calls made while the worker is blocked between two wakes are the
\* events the next wake pushes to the engine, in submission order, however many they
\* are and wherever RTMIDI_INDEX stands; AVAIL_RTMIDI_EVENTS is 0 afterwards.
C9_BatchDeliveredInOrder ==
    [][(pc = "body" /\ pc' = "rearm" /\ w.isRequestingRtMidiInput = 1)
        => /\ midiPushed' = midiSubmitted
           /\ audioState'["AVAIL_RTMIDI_EVENTS"] = 0]_vars

\* C10: a drain of n > 0 events that starts at RTMIDI_INDEX = r leaves
\* RTMIDI_INDEX = (r + n * MIDI_BUFFER_PAYLOAD_SIZE) mod MIDI_BUFFER_SIZE.
C10_IndexAfterDrain ==
    [][(/\ pc = "body" /\ pc' = "rearm"
        /\ w.isRequestingRtMidiInput = 1
        /\ audioState["AVAIL_RTMIDI_EVENTS"] > 0)
        => audioState'["RTMIDI_INDEX"] =
              (audioState["RTMIDI_INDEX"]
                 + audioState["AVAIL_RTMIDI_EVENTS"] * MIDI_BUFFER_PAYLOAD_SIZE)
                    % MIDI_BUFFER_SIZE]_vars

\* the requests whose completion the host still holds uncalled
PendingUids == {uid \in returnQueue : fulfilled[uid] = 0}

\* C11: every request submitted through the callback RPC gets exactly one reply and
\* its completion is called exactly once; once the render loop has ended, its
\* terminal state was handled and no reply is in flight, no completion is pending.
C11_EveryRequestReplied ==
    /\ \A uid \in Uids : fulfilled[uid] <= 1
    /\ (pc = "idle" /\ endTimer = 0 /\ mainPort = <<>> /\ replyPort = <<>>)
           => PendingUids = {}

\* C12: a wrapped API call made while the worker is inside a render loop (the host
\* having handled the start of the performance, paused and resumed included) is put
\* on the callback ring and is not sent through the direct worker proxy.
C12_CallsUseRingInsideLoop ==
    [][(BufferWrappedCallback /\ pc # "idle" /\ currentPlayState \in stopableStates)
           => /\ callbackRing' = Append(callbackRing, Cardinality(returnQueue) + 1)
              /\ directCalls' = directCalls]_vars

\* the engine configurations equal to cfg but for the block size
SameButKsmps(cfg) ==
    {other \in SetupConfigs : [other EXCEPT !.ksmps = cfg.ksmps] = cfg}

\* what the setup publishes for engine cfg when realtimePerformanceStarted is broadcast
PublishedAtStart(cfg) ==
    /\ mainPort' = Append(mainPort, "realtimePerformanceStarted")
    /\ audioState'["IS_PERFORMING"] = 1
    /\ audioState'["NCHNLS"] = cfg.nchnls
    /\ audioState'["SAMPLE_RATE"] = cfg.sr
    /\ audioState'["NCHNLS_I"] = IF cfg.adc THEN cfg.nchnlsInput ELSE 0

TransitionHandled ==
    \/ HandleMessage
    \/ CsoundPause /\ PauseGuard(HostVec)
    \/ CsoundResume /\ ResumeGuard(HostVec)

C15_EveryCallbackInvoked ==
    [][TransitionHandled
           => /\ Len(dispatched') = Len(callbacks) + 1
              /\ dispatched'[1] = <<0, currentPlayState'>>
              /\ \A i \in 1..Len(callbacks) :
                     dispatched'[i + 1] = <<callbacks[i].id, currentPlayState'>>]_vars

\* C15, witness: a transition was handled with two callbacks registered of which the
\* first throws, and both were invoked
C15_InvokedAfterThrow ==
    /\ Len(callbacks) = MaxCallbacks
    /\ callbacks[1].throws
    /\ currentPlayState = "realtimePerformanceEnded"
    /\ Len(dispatched) = Len(callbacks) + 1
    /\ \A i \in 1..Len(callbacks) : dispatched[i + 1] = <<callbacks[i].id, currentPlayState>>

\* C16: a wake that reaches the copy step adds exactly _b to AVAIL_OUT_BUFS, takes
\* exactly _b from AVAIL_IN_BUFS if AVAIL_IN_BUFS >= _b held at its start and nothing
\* otherwise, leaves OUTPUT_WRITE_INDEX at (old + _b) mod _B and INPUT_READ_INDEX at
\* (old + _b) mod _B if it had input, unchanged otherwise; no step of the realtime
\* loop lowers AVAIL_OUT_BUFS.
C16_WakeContribution ==
    [][/\ WorkerBody
           => LET hasInput == audioState["AVAIL_IN_BUFS"] >= w.b
              IN  /\ audioState'["AVAIL_OUT_BUFS"] = audioState["AVAIL_OUT_BUFS"] + w.b
                  /\ audioState'["AVAIL_IN_BUFS"] =
                         audioState["AVAIL_IN_BUFS"] - (IF hasInput THEN w.b ELSE 0)
                  /\ audioState'["OUTPUT_WRITE_INDEX"] =
                         (audioState["OUTPUT_WRITE_INDEX"] + w.b) % w.B
                  /\ audioState'["INPUT_READ_INDEX"] =
                         IF hasInput THEN (audioState["INPUT_READ_INDEX"] + w.b) % w.B
                         ELSE audioState["INPUT_READ_INDEX"]
       /\ RealtimeWorker
           => audioState'["AVAIL_OUT_BUFS"] >= audioState["AVAIL_OUT_BUFS"]]_vars

\* C16, witness: after a wake with input and a wake without, the output cursor has
\* wrapped and the input cursor stands one block in
C16_WrappedAfterInput ==
    /\ pc = "rearm"
    /\ audioState["INPUT_READ_INDEX"] = w.b
    /\ audioState["OUTPUT_WRITE_INDEX"] = 0
    /\ audioState["AVAIL_OUT_BUFS"] > 0
    /\ audioState["AVAIL_IN_BUFS"] = 0

\* C17: in every reachable state 0 <= AVAIL_IN_BUFS <= HW_BUFFER_SIZE and
\* 0 <= AVAIL_OUT_BUFS <= HW_BUFFER_SIZE, whatever the backend and the host do.
C17_CountersWithinRing ==
    /\ 0 <= audioState["AVAIL_IN_BUFS"]
    /\ audioState["AVAIL_IN_BUFS"] <= audioState["HW_BUFFER_SIZE"]
    /\ 0 <= audioState["AVAIL_OUT_BUFS"]
    /\ audioState["AVAIL_OUT_BUFS"] <= audioState["HW_BUFFER_SIZE"]

\* C18: in every state another agent can observe, each atomic access of the worker
\* being a step, INPUT_READ_INDEX and OUTPUT_WRITE_INDEX lie in [0, HW_BUFFER_SIZE):
\* the value HW_BUFFER_SIZE itself is never held by a cursor.
C18_CursorsInsideRing ==
    audioState["HW_BUFFER_SIZE"] > 0
        => /\ audioState["INPUT_READ_INDEX"] \in 0..(audioState["HW_BUFFER_SIZE"] - 1)
           /\ audioState["OUTPUT_WRITE_INDEX"] \in 0..(audioState["HW_BUFFER_SIZE"] - 1)

\* the realtimePerformanceEnded messages in flight to the host
EndedInFlight(port) ==
    Cardinality({i \in 1..Len(port) : port[i] = "realtimePerformanceEnded"})

\* the realtime loop leaves through its exit path
LoopExit == WorkerCheck /\ ExitCondition(audioState, w)

\* C19: when the realtime loop exits on STOP = 1 or IS_PERFORMING # 1 and the engine
\* has not signalled the end, the worker stops the engine and performs exactly one
\* block before realtimePerformanceEnded is broadcast; every exit schedules exactly
\* one broadcast, nothing else does, each scheduled broadcast posts exactly one
\* message, and neither the exit nor the broadcast writes audio_state or a ring.
C19_ExitStopsEngineOnce ==
    [][/\ (LoopExit /\ w.lastReturn = 0
              /\ (audioState["STOP"] = 1 \/ audioState["IS_PERFORMING"] # 1))
           => /\ engine' = PerformEngine(StopEngine(engine))
              /\ mainPort' = mainPort
       /\ LoopExit => endTimer' = endTimer + 1
       /\ endTimer' > endTimer => LoopExit
       /\ EndedInFlight(mainPort') > EndedInFlight(mainPort)
           => /\ mainPort' = Append(mainPort, "realtimePerformanceEnded")
              /\ endTimer' = endTimer - 1
       /\ endTimer' < endTimer => EndedInFlight(mainPort') = EndedInFlight(mainPort) + 1
       /\ (LoopExit \/ WorkerTimeout)
           => /\ audioState' = audioState
              /\ midiBuffer' = midiBuffer
              /\ callbackRing' = callbackRing]_vars

\* C19, witness: the loop was left on a stop with the engine still performing; the
\* engine was stopped and performed one block, the broadcast is scheduled
C19_StoppedBeforeEnd ==
    /\ pc = "idle"
    /\ endTimer > 0
    /\ audioState["STOP"] = 1
    /\ engine = PerformEngine(StopEngine(EngineStarted))

\* C20: in offline render mode a stop() accepted during the render makes the loop
\* terminate: IS_PERFORMING is set to 0, renderEnded reaches the host and the stop()
\* returns 0.
C20_RenderStopReturns ==
    (stopPromiz # 0 /\ pc # "idle")
        ~> (stopPromiz = 0 /\ stopResult = <<0>> /\ currentPlayState = "renderEnded")


----------------------------------------------------------------------------
(* MIDI specification, stepwise: handleMidiInput on the host thread and the   *)
(* MIDI drain on the worker thread run in parallel; every atomic load, store, *)
(* add and sub of either is one step.  midiSubmitted holds the events whose   *)
(* on_midi call has returned and that no drain has consumed, midiPushed the   *)
(* events the running (or latest) drain has pushed to the engine.             *)

MaxMidiPending == 2     \* on_midi calls returned and not yet consumed by a drain

\* what the steps of handleMidiInput leave alone
midiHostFrame == <<hostFresh, nofity, hostVars, mainPort, proxy, pc, w, endTimer, engine,
                   midiPushed, midiDrain, callbackRing, replyPort, returnQueue, fulfilled,
                   directCalls, callbacks, copy, rung>>

\* what the steps of the MIDI drain leave alone
midiDrainFrame == <<freshState, hostFresh, nofity, hostVars, mainPort, proxy, w, endTimer,
                    engine, midiBuffer, midiHost, callbackRing, replyPort, returnQueue,
                    fulfilled, directCalls, callbacks, copy, rung>>

\* handleMidiInput: const currentQueueLength = Atomics.load(AVAIL_RTMIDI_EVENTS)
MidiLoadQueueLength ==
    \E ev \in MidiEvents :
        /\ midiHost.at = "idle"
        /\ HostVec["IS_PERFORMING"] = 1
        /\ Len(midiSubmitted) < MaxMidiPending
        /\ midiHost' = [at |-> "index", data |-> ev,
                        currentQueueLength |-> HostVec["AVAIL_RTMIDI_EVENTS"],
                        rtmidiBufferIndex |-> 0]
        /\ UNCHANGED <<midiHostFrame, audioState, freshState, midiBuffer, midiSubmitted>>

\* handleMidiInput: const rtmidiBufferIndex = Atomics.load(RTMIDI_INDEX)
MidiLoadIndex ==
    /\ midiHost.at = "index"
    /\ midiHost' = [midiHost EXCEPT !.at = "status",
                                    !.rtmidiBufferIndex = HostVec["RTMIDI_INDEX"]]
    /\ UNCHANGED <<midiHostFrame, audioState, freshState, midiBuffer, midiSubmitted>>

\* handleMidiInput: nextIndex, computed from the two loaded values
MidiHostNextIndex ==
    MidiNextIndex([AVAIL_RTMIDI_EVENTS |-> midiHost.currentQueueLength,
                   RTMIDI_INDEX |-> midiHost.rtmidiBufferIndex])

\* handleMidiInput: Atomics.store(this.midiBuffer, nextIndex + k, word k of the event)
MidiStoreWord(k, at, next) ==
    /\ midiHost.at = at
    /\ midiBuffer' = [midiBuffer EXCEPT ![MidiHostNextIndex + k] = midiHost.data[k + 1]]
    /\ midiHost' = [midiHost EXCEPT !.at = next]
    /\ UNCHANGED <<midiHostFrame, audioState, freshState, midiSubmitted>>

\* handleMidiInput: Atomics.add(AVAIL_RTMIDI_EVENTS, 1); the call returns
MidiAddAvailable ==
    /\ midiHost.at = "add"
    /\ SetHostVec([HostVec EXCEPT !["AVAIL_RTMIDI_EVENTS"] = @ + 1])
    /\ midiSubmitted' = Append(midiSubmitted, midiHost.data)
    /\ midiHost' = NoMidiHost
    /\ UNCHANGED <<midiHostFrame, midiBuffer>>

HandleMidiInputStepwise ==
    \/ MidiLoadQueueLength
    \/ MidiLoadIndex
    \/ MidiStoreWord(0, "status", "data1")
    \/ MidiStoreWord(1, "data1", "data2")
    \/ MidiStoreWord(2, "data2", "add")
    \/ MidiAddAvailable

\* the drain: if (isRequestingRtMidiInput), availableMidiEvents =
\* Atomics.load(AVAIL_RTMIDI_EVENTS), if (availableMidiEvents > 0)
DrainLoadAvailable ==
    /\ pc = "body"
    /\ midiPushed' = <<>>
    /\ IF MidiDrains(audioState, w)
       THEN /\ midiDrain' = [NoMidiDrain EXCEPT
                                !.availableMidiEvents = audioState["AVAIL_RTMIDI_EVENTS"]]
            /\ pc' = "midi_index"
       ELSE /\ midiDrain' = NoMidiDrain
            /\ pc' = "midi_done"
    /\ UNCHANGED <<midiDrainFrame, audioState, midiSubmitted>>

\* the drain: rtmidiBufferIndex = Atomics.load(RTMIDI_INDEX); let absIdx = rtmidiBufferIndex
DrainLoadIndex ==
    /\ pc = "midi_index"
    /\ midiDrain' = [midiDrain EXCEPT !.rtmidiBufferIndex = audioState["RTMIDI_INDEX"],
                                      !.absIdx = audioState["RTMIDI_INDEX"]]
    /\ pc' = "midi_status"
    /\ UNCHANGED <<midiDrainFrame, audioState, midiPushed, midiSubmitted>>

\* the drain: absIdx of this iteration; status = Atomics.load(midiBuffer, absIdx)
DrainLoadStatus ==
    /\ pc = "midi_status"
    /\ LET at == MidiAbsIdx(midiDrain.rtmidiBufferIndex, midiDrain.idx)
       IN  midiDrain' = [midiDrain EXCEPT !.absIdx = at, !.status = midiBuffer[at]]
    /\ pc' = "midi_data1"
    /\ UNCHANGED <<midiDrainFrame, audioState, midiPushed, midiSubmitted>>

\* the drain: data1 = Atomics.load(midiBuffer, absIdx + 1)
DrainLoadData1 ==
    /\ pc = "midi_data1"
    /\ midiDrain' = [midiDrain EXCEPT !.data1 = midiBuffer[midiDrain.absIdx + 1]]
    /\ pc' = "midi_data2"
    /\ UNCHANGED <<midiDrainFrame, audioState, midiPushed, midiSubmitted>>

\* the drain: data2 = Atomics.load(midiBuffer, absIdx + 2); csoundPushMidiMessage;
\* idx++ and the loop test
DrainLoadData2 ==
    /\ pc = "midi_data2"
    /\ midiPushed' = Append(midiPushed, <<midiDrain.status, midiDrain.data1,
                                          midiBuffer[midiDrain.absIdx + 2]>>)
    /\ midiDrain' = [midiDrain EXCEPT !.idx = @ + 1]
    /\ pc' = IF midiDrain.idx + 1 < midiDrain.availableMidiEvents
             THEN "midi_status" ELSE "midi_store"
    /\ UNCHANGED <<midiDrainFrame, audioState, midiSubmitted>>

\* the drain: Atomics.store(RTMIDI_INDEX, (absIdx + 1) % MIDI_BUFFER_SIZE)
DrainStoreIndex ==
    /\ pc = "midi_store"
    /\ audioState' = [audioState EXCEPT
                         !["RTMIDI_INDEX"] = (midiDrain.absIdx + 1) % MIDI_BUFFER_SIZE]
    /\ pc' = "midi_sub"
    /\ UNCHANGED <<midiDrainFrame, midiDrain, midiPushed, midiSubmitted>>

\* the drain: Atomics.sub(AVAIL_RTMIDI_EVENTS, availableMidiEvents)
DrainSubAvailable ==
    /\ pc = "midi_sub"
    /\ audioState' = [audioState EXCEPT
                         !["AVAIL_RTMIDI_EVENTS"] = @ - midiDrain.availableMidiEvents]
    /\ midiSubmitted' = SubSeq(midiSubmitted, midiDrain.availableMidiEvents + 1,
                               Len(midiSubmitted))
    /\ midiDrain' = NoMidiDrain
    /\ pc' = "midi_done"
    /\ UNCHANGED <<midiDrainFrame, midiPushed>>

\* the wake past the MIDI drain: handleSABCallbacks, copy loop, counters
WorkerAfterDrain ==
    /\ pc = "midi_done"
    /\ LET r == WakeResult(audioState, engine, [w EXCEPT !.isRequestingRtMidiInput = 0],
                           midiBuffer)
       IN  /\ audioState' = r.v
           /\ engine' = r.e
           /\ w' = [r.locals EXCEPT !.isRequestingRtMidiInput = w.isRequestingRtMidiInput]
    /\ HandleSABCallbacks
    /\ pc' = "rearm"
    /\ UNCHANGED <<freshState, hostFresh, nofity, hostVars, mainPort, proxy, endTimer,
                   midiBuffer, midiPushed, midiSubmitted, returnQueue, fulfilled,
                   directCalls, callbacks, copy, rung, midiVars>>

MidiDrainStepwise ==
    \/ DrainLoadAvailable
    \/ DrainLoadIndex
    \/ DrainLoadStatus
    \/ DrainLoadData1
    \/ DrainLoadData2
    \/ DrainStoreIndex
    \/ DrainSubAvailable
    \/ WorkerAfterDrain

NextMidiSteps ==
    \/ FirstStart
    \/ \E cfg \in MidiConfigs : WorkerStart(cfg)
    \/ HandleMessage
    \/ HandleMidiInputStepwise
    \/ BackendRing
    \/ WorkerWait
    \/ WorkerCheck
    \/ WorkerPauseLoad
    \/ MidiDrainStepwise
    \/ WorkerRearm
    \/ WorkerTimeout

SpecMidiSteps == Init /\ [][NextMidiSteps]_vars

\* C21: every doorbell ring leads to a wake: the worker never blocks on the
\* doorbell while a ring that arrived inside the previous wake, after that
\* wake's frames were copied, is still unserviced.
C21_NoRingLost == pc = "blocked" => ~rung

\* C22: with handleMidiInput and the MIDI drain interleaved one atomic access at a
\* time, every drain pushes to the engine exactly the oldest pending events, each
\* with its own three words and in submission order, and AVAIL_RTMIDI_EVENTS always
\* equals the number of events submitted and not yet delivered, as long as the
\* worker is in the realtime loop.
C22_EventsDeliveredOnce ==
    [][/\ DrainSubAvailable
            => midiPushed = SubSeq(midiSubmitted, 1, midiDrain.availableMidiEvents)
       /\ pc' # "idle" => audioState'["AVAIL_RTMIDI_EVENTS"] = Len(midiSubmitted')]_vars

\* the counter half of C22 on its own
MidiCountExact == pc # "idle" => audioState["AVAIL_RTMIDI_EVENTS"] = Len(midiSubmitted)

----------------------------------------------------------------------------
(* Block specification: a realtime performance of an engine whose block size  *)
(* does or does not divide the ring size, with a score of more than one       *)
(* block; the backend rings, writes input and reads output; pause and resume  *)
(* on the host, no stop.                                                      *)

BlockConfigs ==
    [realtime : {TRUE}, rtmidi : {0}, adc : BOOLEAN, nchnls : {2}, nchnlsInput : {1},
     sr : {44100}, ksmps : {1, 2, 3}, blocks : {ScoreBlocks + 1}]

NextBlocks ==
    \/ FirstStart
    \/ CsoundPause
    \/ CsoundResume
    \/ HandleMessage
    \/ \E cfg \in BlockConfigs : WorkerStart(cfg)
    \/ RealtimeWorker
    \/ BackendRing
    \/ BackendWriteInput
    \/ BackendReadOutput

SpecBlocks == Init /\ [][NextBlocks]_vars

\* spout positions 0 .. k-1 in order
WholeBlock(k) == [j \in 1..k |-> j - 1]

\* s is an initial part of t
IsPrefix(s, t) == Len(s) <= Len(t) /\ s = SubSeq(t, 1, Len(s))

\* C23: between two consecutive csoundPerformKsmps calls of the copy loop exactly
\* the spout positions 0 .. ksmps-1 are copied to out_ring, in order and once each,
\* whatever ksmps is and wherever the wake boundaries and the wrap of
\* OUTPUT_WRITE_INDEX fall: every call finds the block before it copied whole.
C23_WholeBlocksCopied ==
    (pc \in {"wait", "blocked", "check", "pause", "pausewait", "pauseblocked", "body",
             "rearm"} /\ ~engine.stopped)
        => /\ engine.block \in {NoBlock, WholeBlock(w.ksmps)}
           /\ engine.spout = NoBlock \/ IsPrefix(engine.spout, WholeBlock(w.ksmps))

\* the same, for the engines whose block size divides the ring size
WholeBlocksWhenDividing ==
    (w.ksmps > 0 /\ w.B % w.ksmps = 0) => C23_WholeBlocksCopied

\* C24: within one performance the worker makes no csoundPerformKsmps call and no
\* csoundStop call after a csoundPerformKsmps call has returned non-zero: not in
\* the copy loop, not on the exit path, not in the offline render loop.
C24_NoCallAfterEnd == ~engine.overrun

\* the realtime loop was left after the engine had ended by itself
C24_ExitAfterEnd ==
    pc = "idle" /\ endTimer > 0 /\ engine.ended /\ ~engine.stopped

\* C25: once the end of the performance has been handled by the host, every
\* accepted stop() call has returned 0: none is left awaiting its completion, also
\* when stop() was called again before the end broadcast was handled.
C25_EveryStopCompleted ==
    currentPlayState \in {"realtimePerformanceEnded", "renderEnded"}
        => stopUnresolved = {}

====
